---- MODULE Spec2Model ----
(***************************************************************************)
(* Order-block / break-of-structure detector of                            *)
(* src/order_block_detector.py (class OrderBlockDetector), run over a      *)
(* data frame of candles with a StructureLow column.                       *)
(*                                                                         *)
(* The scan is one pass over the rows RANGE_CANDLE .. len(data)-1.  One    *)
(* action, Scan, is one iteration of the for loop of                       *)
(* detect_order_blocks_bos; Return is the loop's exit and the return       *)
(* statement.  The rows are the detector's input: the row at position i    *)
(* is drawn when the loop reads it (data.iloc[i]), which is the same as    *)
(* drawing the whole frame beforehand because the scan never looks ahead.  *)
(*                                                                         *)
(* The two flags SHOW_BEARISH_BOS / SHOW_BULLISH_BOS are module constants  *)
(* of utils.py.  The detector is run under all four settings side by side  *)
(* on the same rows (det[cfg]) so that runs can be compared.               *)
(***************************************************************************)
EXTENDS Integers, Sequences, FiniteSets, TLC

(***************************************************************************)
(* Bounds.                                                                 *)
(***************************************************************************)
\* Largest len(data) explored.
MaxN == 4

\* utils.RANGE_CANDLE (utils.py:12 sets 15): the window W, the first index
\* scanned.  Scaled down so that frames of MaxN rows are scanned.
RANGE_CANDLE == 1

\* The literal 1000 of order_block_detector.py:68 and :81: the lookback
\* ceiling L.  Scaled down so that both sides of "i - index < L" are reached
\* by frames of MaxN rows.
LOOKBACK == 3

\* Prices of the candles explored.
Prices == 1..3

(***************************************************************************)
(* Input data.                                                             *)
(***************************************************************************)
\* pandas' NaN, the value of StructureLow where the rolling window is not
\* full.  Every comparison with NaN is False.
NaN == -1

\* row["Low"] < row["StructureLow"] on floats that may be NaN.
Lt(a, b) == a # NaN /\ b # NaN /\ a < b

\* Open/High/Low/Close of a well-formed candle.
Candles ==
    { [Open |-> o, High |-> h, Low |-> l, Close |-> c] :
        o \in Prices, h \in Prices, l \in Prices, c \in Prices }

WellFormed(r) ==
    /\ r.Low <= r.Open /\ r.Open <= r.High
    /\ r.Low <= r.Close /\ r.Close <= r.High

\* Values of the StructureLow column: NaN, or a price level (one above the
\* highest price so that every Low can break it).
StructureLows == {NaN} \cup Prices \cup {4}

\* data.index[k]: the timestamp label of row k (daily rows, strictly
\* increasing).
Index(k) == 100 + k

\* SHOW_BEARISH_BOS, SHOW_BULLISH_BOS.
Cfgs == [show_bearish_bos : BOOLEAN, show_bullish_bos : BOOLEAN]

AllTrue == [show_bearish_bos |-> TRUE, show_bullish_bos |-> TRUE]

VARIABLES
    n,      \* len(self.data)
    i,      \* the loop variable of detect_order_blocks_bos (next index to read)
    pc,     \* "scan" inside the loop, "done" after the return
    data,   \* Open/High/Low/Close of the rows read so far, by index
    row,    \* the row read last (self.data.iloc[i]), with its StructureLow
    undef,  \* the scanned indices whose StructureLow was NaN
    det,    \* per flag setting: the detector object's fields
    mid,    \* per flag setting: the fields before the last iteration and
            \* after each of its parts (pre, a, b, c)
    made,   \* per flag setting: how many long boxes line 82 has appended
    mono,   \* per flag setting: the local variables of work.py's
            \* detect_order_blocks_bos run on the same rows
    warm,   \* Open/High/Low/Close of the frame's rows below RANGE_CANDLE
    visited,\* the indices the loop has read with data.iloc[i], in order
    warm2,  \* the rows below RANGE_CANDLE of a second frame, which has
            \* the same rows from RANGE_CANDLE on
    alt,    \* the detector's fields (both flags on) run on the second frame
    \* calculate_structure_low of data_processor.py:
    window, \* RANGE_CANDLE as the call reads it
    p_low,  \* data["Low"], position p holding index p - 1
    p_roll, \* low_rolling_min
    p_slow, \* data["StructureLow"]
    p_idx,  \* data["StructureLowIndex"] (one label for all rows)
    ppc     \* "idle", or where the call stands

detvars == <<n, i, pc, data, row, undef, det, mid, made, mono,
             warm, visited, warm2, alt>>
prepvars == <<window, p_low, p_roll, p_slow, p_idx, ppc>>
vars == <<detvars, prepvars>>

(***************************************************************************)
(* OrderBlockDetector.__init__                                             *)
(***************************************************************************)
init_fields ==
    [ long_boxes      |-> << >>,
      short_boxes     |-> << >>,
      bos_lines       |-> << >>,
      last_down_index |-> 0,
      last_down       |-> 0,
      last_low        |-> 0,
      last_up_index   |-> 0,
      last_long_index |-> 0,
      last_up_low     |-> 0,
      last_high       |-> 0 ]

Max(a, b) == IF a >= b THEN a ELSE b
Min(a, b) == IF a <= b THEN a ELSE b

\* list.remove(x): removes the first element equal to x.
RemoveFirst(s, x) ==
    IF \E k \in 1..Len(s) : s[k] = x
    THEN LET k == CHOOSE k \in 1..Len(s) :
                     s[k] = x /\ \A j \in 1..(k - 1) : s[j] # x
         IN SubSeq(s, 1, k - 1) \o SubSeq(s, k + 1, Len(s))
    ELSE s

(***************************************************************************)
(* _detect_short_boxes, lines 67-76: bearish break, short box, bearish     *)
(* line.                                                                   *)
(***************************************************************************)
\* Variant: the ceiling itself still counts as inside the lookback.
within_lookback_inclusive(idx, k) == k - idx <= LOOKBACK

\* i - self.last_up_index < 1000 ; i - self.last_down_index < 1000
within_lookback(idx, k) == k - idx < LOOKBACK

\* Variant: the bearish line is appended whatever the flag.
bearish_line_unflagged(d, k, cfg) ==
    Append(d.bos_lines,
           <<Index(d.last_up_index), d.last_up_low,
             Index(k), d.last_up_low, 0>>)

\* lines 71-76
bearish_line(d, k, cfg) ==
    IF cfg.show_bearish_bos
    THEN Append(d.bos_lines,
                <<Index(d.last_up_index), d.last_up_low,
                  Index(k), d.last_up_low, 0>>)
    ELSE d.bos_lines

\* lines 69-70
short_box(d) == <<d.last_up_index, d.last_high, d.last_up_low>>

\* Variant: the short box is appended inside "if self.show_bearish_bos".
short_break_flagged(d, r, k, cfg) ==
    IF Lt(r.Low, r.StructureLow) /\ within_lookback(d.last_up_index, k)
       /\ cfg.show_bearish_bos
    THEN [d EXCEPT !.short_boxes = Append(@, short_box(d)),
                   !.bos_lines   = bearish_line(d, k, cfg)]
    ELSE d

\* lines 67-76
short_break(d, r, k, cfg) ==
    IF Lt(r.Low, r.StructureLow)
    THEN IF within_lookback(d.last_up_index, k)
         THEN [d EXCEPT !.short_boxes = Append(@, short_box(d)),
                        !.bos_lines   = bearish_line(d, k, cfg)]
         ELSE d
    ELSE d

(***************************************************************************)
(* _detect_short_boxes, lines 78-90: invalidation of short boxes, long     *)
(* box, bullish line, guard index.                                         *)
(***************************************************************************)
\* Variant: i >= self.last_long_index.
guard_open_inclusive(d, k) == k >= d.last_long_index

\* i > self.last_long_index
guard_open(d, k) == k > d.last_long_index

\* Variant: the bullish line is inserted at the head of the list.
bullish_line_prepended(d, k, cfg) ==
    IF cfg.show_bullish_bos
    THEN <<<<Index(d.last_down_index), d.last_down,
             Index(k), d.last_down, 1>>>> \o d.bos_lines
    ELSE d.bos_lines

\* lines 84-89
bullish_line(d, k, cfg) ==
    IF cfg.show_bullish_bos
    THEN Append(d.bos_lines,
                <<Index(d.last_down_index), d.last_down,
                  Index(k), d.last_down, 1>>)
    ELSE d.bos_lines

\* lines 82-83
long_box(d) == <<d.last_down_index, d.last_down, d.last_low>>

\* Variant: the bullish line is appended for every removed box, outside the
\* test of line 81.
invalidate_one_line_always(d, box, r, k, cfg) ==
    IF r.Close > box[2]
    THEN LET d1 == [d EXCEPT !.short_boxes = RemoveFirst(@, box),
                             !.bos_lines   = bullish_line(d, k, cfg)]
         IN IF within_lookback(d1.last_down_index, k) /\ guard_open(d1, k)
            THEN [d1 EXCEPT !.long_boxes      = Append(@, long_box(d1)),
                            !.last_long_index = k]
            ELSE d1
    ELSE d

\* lines 79-90, the body of the loop for one box of the snapshot
invalidate_one(d, box, r, k, cfg) ==
    IF r.Close > box[2]
    THEN LET d1 == [d EXCEPT !.short_boxes = RemoveFirst(@, box)]
         IN IF within_lookback(d1.last_down_index, k) /\ guard_open(d1, k)
            THEN [d1 EXCEPT !.long_boxes      = Append(@, long_box(d1)),
                            !.bos_lines       = bullish_line(d1, k, cfg),
                            !.last_long_index = k]
            ELSE d1
    ELSE d

\* Variant: the loop stops after the first box it removes.
RECURSIVE invalidate_first_only(_, _, _, _, _, _)
invalidate_first_only(d, snap, j, r, k, cfg) ==
    IF j > Len(snap)
    THEN d
    ELSE IF r.Close > snap[j][2]
         THEN invalidate_one(d, snap[j], r, k, cfg)
         ELSE invalidate_first_only(d, snap, j + 1, r, k, cfg)

\* line 78: for box in self.short_boxes[:] -- over the snapshot snap,
\* from its element j on
RECURSIVE invalidate_from(_, _, _, _, _, _)
invalidate_from(d, snap, j, r, k, cfg) ==
    IF j > Len(snap)
    THEN d
    ELSE invalidate_from(invalidate_one(d, snap[j], r, k, cfg),
                         snap, j + 1, r, k, cfg)

\* Variant: the snapshot is taken before lines 67-76 run.
snapshot_early(before, after) == before.short_boxes

\* the snapshot self.short_boxes[:] taken at line 78, after lines 67-76
snapshot(before, after) == after.short_boxes

\* lines 67-90
detect_short_boxes(d, r, k, cfg) ==
    LET a == short_break(d, r, k, cfg)
    IN invalidate_from(a, snapshot(d, a), 1, r, k, cfg)

(***************************************************************************)
(* _detect_long_boxes, lines 99-101.                                       *)
(***************************************************************************)
\* Variant: the Close is compared with box[1], the top.
RECURSIVE long_from_top(_, _, _, _)
long_from_top(d, snap, j, r) ==
    IF j > Len(snap)
    THEN d
    ELSE long_from_top(IF r.Close < snap[j][2]
                       THEN [d EXCEPT !.long_boxes = RemoveFirst(@, snap[j])]
                       ELSE d,
                       snap, j + 1, r)

RECURSIVE long_from(_, _, _, _)
long_from(d, snap, j, r) ==
    IF j > Len(snap)
    THEN d
    ELSE long_from(IF r.Close < snap[j][3]
                   THEN [d EXCEPT !.long_boxes = RemoveFirst(@, snap[j])]
                   ELSE d,
                   snap, j + 1, r)

detect_long_boxes(d, r) == long_from(d, d.long_boxes, 1, r)

(***************************************************************************)
(* _update_last_indices, lines 111-120.                                    *)
(***************************************************************************)
\* lines 111-114
update_down(d, r, k) ==
    IF r.Close < r.Open
    THEN [d EXCEPT !.last_down = r.High,
                   !.last_down_index = k,
                   !.last_low = r.Low]
    ELSE d

\* lines 115-118
update_up(d, r, k) ==
    IF r.Close > r.Open
    THEN [d EXCEPT !.last_up_index = k,
                   !.last_up_low = r.Low,
                   !.last_high = r.High]
    ELSE d

\* Variant: line 119 is missing, last_high stays the up candle's High.
update_extremes_low_only(d, r) ==
    [d EXCEPT !.last_low = Min(r.Low, @)]

\* lines 119-120
update_extremes(d, r) ==
    [d EXCEPT !.last_high = Max(r.High, @),
              !.last_low  = Min(r.Low, @)]

update_last_indices(d, r, k) ==
    update_extremes(update_up(update_down(d, r, k), r, k), r)

(***************************************************************************)
(* One iteration of the loop of detect_order_blocks_bos, lines 53-56, with *)
(* the fields at each point of it.                                         *)
(***************************************************************************)
\* Variant: _update_last_indices is called first in the loop body.
iteration_update_first(d, r, k, cfg) ==
    LET u == update_last_indices(d, r, k)
        a == short_break(u, r, k, cfg)
        b == detect_short_boxes(u, r, k, cfg)
        c == detect_long_boxes(b, r)
    IN [pre |-> d, a |-> a, b |-> b, c |-> c, post |-> c]

iteration(d, r, k, cfg) ==
    LET a == short_break(d, r, k, cfg)
        b == detect_short_boxes(d, r, k, cfg)
        c == detect_long_boxes(b, r)
        e == update_last_indices(c, r, k)
    IN [pre |-> d, a |-> a, b |-> b, c |-> c, post |-> e]

(***************************************************************************)
(* The monolithic detect_order_blocks_bos(data) of src/work.py, lines      *)
(* 196-277: the same scan written as one function over local variables     *)
(* (shor_boxes is the source's spelling).  It reads work.py's own          *)
(* RANGE_CANDLE, SHOW_BEARISH_BOS and SHOW_BULLISH_BOS, which are set to   *)
(* the values of utils.py.                                                 *)
(***************************************************************************)
\* work.py lines 215-220
w_locals ==
    [ last_down_index    |-> 0,
      last_down          |-> 0,
      last_low           |-> 0,
      last_up_index      |-> 0,
      last_long_index    |-> 0,
      last_up_low        |-> 0,
      last_high          |-> 0,
      long_boxes         |-> << >>,
      shor_boxes         |-> << >>,
      bos_lines          |-> << >>,
      candle_colour_mode |-> 0 ]

\* work.py lines 224-237
w_break(w, r, k, cfg) ==
    IF Lt(r.Low, r.StructureLow)
    THEN IF k - w.last_up_index < LOOKBACK
         THEN LET w1 == [w EXCEPT !.shor_boxes =
                            Append(@, <<w.last_up_index, w.last_high,
                                        w.last_up_low>>)]
              IN IF cfg.show_bearish_bos
                 THEN [w1 EXCEPT !.candle_colour_mode = 0,
                                 !.bos_lines =
                                     Append(@, <<Index(w.last_up_index),
                                                 w.last_up_low, Index(k),
                                                 w.last_up_low, 0>>)]
                 ELSE w1
         ELSE w
    ELSE w

\* work.py lines 241-257, the loop body for one box
w_short_one(w, box, r, k, cfg) ==
    IF r.Close > box[2]
    THEN LET w1 == [w EXCEPT !.shor_boxes = RemoveFirst(@, box)]
         IN IF k - w1.last_down_index < LOOKBACK /\ k > w1.last_long_index
            THEN LET w2 == [w1 EXCEPT !.long_boxes =
                               Append(@, <<w1.last_down_index, w1.last_down,
                                           w1.last_low>>)]
                     w3 == IF cfg.show_bullish_bos
                           THEN [w2 EXCEPT !.candle_colour_mode = 1,
                                           !.bos_lines =
                                               Append(@, <<Index(w2.last_down_index),
                                                           w2.last_down, Index(k),
                                                           w2.last_down, 1>>)]
                           ELSE w2
                 IN [w3 EXCEPT !.last_long_index = k]
            ELSE w1
    ELSE w

\* work.py line 240: for box in shor_boxes[:]
RECURSIVE w_short_from(_, _, _, _, _, _)
w_short_from(w, snap, j, r, k, cfg) ==
    IF j > Len(snap)
    THEN w
    ELSE w_short_from(w_short_one(w, snap[j], r, k, cfg),
                      snap, j + 1, r, k, cfg)

\* work.py lines 239-257
w_shorts(w, r, k, cfg) ==
    IF Len(w.shor_boxes) > 0
    THEN w_short_from(w, w.shor_boxes, 1, r, k, cfg)
    ELSE w

\* work.py lines 260-262
RECURSIVE w_long_from(_, _, _, _)
w_long_from(w, snap, j, r) ==
    IF j > Len(snap)
    THEN w
    ELSE w_long_from(IF r.Close < snap[j][3]
                     THEN [w EXCEPT !.long_boxes = RemoveFirst(@, snap[j])]
                     ELSE w,
                     snap, j + 1, r)

\* work.py lines 259-262
w_longs(w, r) ==
    IF Len(w.long_boxes) > 0
    THEN w_long_from(w, w.long_boxes, 1, r)
    ELSE w

\* Variant: work.py line 275 is missing.
w_swing_no_min(w, r, k) ==
    LET w1 == IF r.Close < r.Open
              THEN [w EXCEPT !.last_down = r.High,
                             !.last_down_index = k,
                             !.last_low = r.Low]
              ELSE w
        w2 == IF r.Close > r.Open
              THEN [w1 EXCEPT !.last_up_index = k,
                              !.last_up_low = r.Low,
                              !.last_high = r.High]
              ELSE w1
    IN [w2 EXCEPT !.last_high = Max(r.High, @)]

\* work.py lines 264-275
w_swing(w, r, k) ==
    LET w1 == IF r.Close < r.Open
              THEN [w EXCEPT !.last_down = r.High,
                             !.last_down_index = k,
                             !.last_low = r.Low]
              ELSE w
        w2 == IF r.Close > r.Open
              THEN [w1 EXCEPT !.last_up_index = k,
                              !.last_up_low = r.Low,
                              !.last_high = r.High]
              ELSE w1
    IN [w2 EXCEPT !.last_high = Max(r.High, @),
                  !.last_low  = Min(r.Low, @)]

\* work.py lines 223-275: one iteration of the loop
w_iteration(w, r, k, cfg) ==
    w_swing(w_longs(w_shorts(w_break(w, r, k, cfg), r, k, cfg), r), r, k)

Rows ==
    { [Open |-> c.Open, High |-> c.High, Low |-> c.Low, Close |-> c.Close,
       StructureLow |-> s] : c \in {x \in Candles : WellFormed(x)},
                             s \in StructureLows }

\* Rows below RANGE_CANDLE explored: an up, a down and a flat candle.
WarmCandles ==
    { [Open |-> 1, High |-> 2, Low |-> 1, Close |-> 2],
      [Open |-> 3, High |-> 3, Low |-> 2, Close |-> 2],
      [Open |-> 2, High |-> 3, Low |-> 1, Close |-> 2] }

\* data.iloc[k] of a frame whose rows below RANGE_CANDLE are w and whose
\* row k, from RANGE_CANDLE on, is r.  StructureLow is NaN below
\* RANGE_CANDLE (data_processor.py:47-48).
row_at(w, k, r) ==
    IF k < RANGE_CANDLE
    THEN [Open |-> w[k].Open, High |-> w[k].High, Low |-> w[k].Low,
          Close |-> w[k].Close, StructureLow |-> NaN]
    ELSE r

\* Variant: the range starts one row early.
first_index_early == RANGE_CANDLE - 1

\* line 52: range(self.range_candle, len(self.data)) starts here
first_index == RANGE_CANDLE

NoRow == [Open |-> NaN, High |-> NaN, Low |-> NaN, Close |-> NaN,
          StructureLow |-> NaN]

\* The detector after construction, before the loop, on a frame of n rows.
Constructed ==
    /\ i = first_index
    /\ pc = "scan"
    /\ data = << >>
    /\ row = NoRow
    /\ undef = {}
    /\ det = [cfg \in Cfgs |-> init_fields]
    /\ mid = [cfg \in Cfgs |->
                [pre |-> init_fields, a |-> init_fields, b |-> init_fields,
                 c |-> init_fields, post |-> init_fields]]
    /\ made = [cfg \in Cfgs |-> 0]
    /\ mono = [cfg \in Cfgs |-> w_locals]
    /\ visited = << >>
    /\ alt = init_fields

\* No call of calculate_structure_low is under way.
PrepIdle ==
    /\ window = RANGE_CANDLE
    /\ p_low = << >>
    /\ p_roll = << >>
    /\ p_slow = << >>
    /\ p_idx = NaN
    /\ ppc = "idle"

\* Frames of up to MaxN rows; the rows below RANGE_CANDLE, which the scan
\* does not read, are the same flat candle in both frames.
Init ==
    /\ n \in 0..MaxN
    /\ warm = [k \in 0..(Min(n, RANGE_CANDLE) - 1) |->
                 [Open |-> 1, High |-> 1, Low |-> 1, Close |-> 1]]
    /\ warm2 = warm
    /\ Constructed
    /\ PrepIdle

\* Pairs of frames of up to MaxN - 1 rows that share their rows from
\* RANGE_CANDLE on and have any of WarmCandles below.
InitPrefix ==
    /\ n \in 0..(MaxN - 1)
    /\ warm \in [0..(Min(n, RANGE_CANDLE) - 1) -> WarmCandles]
    /\ warm2 \in [0..(Min(n, RANGE_CANDLE) - 1) -> WarmCandles]
    /\ Constructed
    /\ PrepIdle

\* lines 52-56: one iteration of "for i in range(self.range_candle, len(self.data))"
Scan ==
    /\ pc = "scan"
    /\ i < n
    /\ \E drawn \in Rows :
        LET r  == row_at(warm, i, drawn)
            r2 == row_at(warm2, i, drawn)
        IN
        /\ row' = r
        /\ data' = [k \in RANGE_CANDLE..i |->
                      IF k = i
                      THEN [Open |-> r.Open, High |-> r.High,
                            Low |-> r.Low, Close |-> r.Close]
                      ELSE data[k]]
        /\ undef' = IF r.StructureLow = NaN THEN undef \cup {i} ELSE undef
        /\ mid' = [cfg \in Cfgs |-> iteration(det[cfg], r, i, cfg)]
        /\ det' = [cfg \in Cfgs |-> mid'[cfg].post]
        /\ made' = [cfg \in Cfgs |->
                      made[cfg] + Len(mid'[cfg].b.long_boxes)
                                - Len(mid'[cfg].a.long_boxes)]
        /\ mono' = [cfg \in Cfgs |-> w_iteration(mono[cfg], r, i, cfg)]
        /\ alt' = iteration(alt, r2, i, AllTrue).post
    /\ visited' = Append(visited, i)
    /\ i' = i + 1
    /\ UNCHANGED <<n, pc, warm, warm2, prepvars>>

\* line 57: the range is exhausted, return the three lists
Return ==
    /\ pc = "scan"
    /\ i >= n
    /\ pc' = "done"
    /\ UNCHANGED <<n, i, data, row, undef, det, mid, made, mono,
                   warm, visited, warm2, alt, prepvars>>

\* What the call has produced: the three lists once line 57 has returned
\* them.  The class raises no exception of its own.
outcome == IF pc = "done" THEN "Returned" ELSE "Scanning"

Next == Scan \/ Return

Spec == Init /\ [][Next]_vars

\* The same scan over pairs of frames that differ below RANGE_CANDLE.
SpecPrefix == InitPrefix /\ [][Next]_vars


(***************************************************************************)
(* calculate_structure_low of src/data_processor.py, lines 47-50, on the   *)
(* Low column of a frame.  pandas' Series are sequences here: position p   *)
(* holds the row of index p - 1.                                           *)
(***************************************************************************)
\* Largest frame and largest window explored for calculate_structure_low.
MaxRows == 5
MaxWindow == 3

\* min() of one window, taken element by element.
RECURSIVE window_min(_, _, _)
window_min(low, from, to) ==
    IF from >= to THEN low[to]
    ELSE Min(low[from], window_min(low, from + 1, to))

\* Series.rolling(window=w).min(): NaN until w observations are in the
\* window (min_periods defaults to the window), then the minimum of the w
\* values ending at the position.
rolling_min(low, w) ==
    [p \in 1..Len(low) |->
        IF p < w THEN NaN ELSE window_min(low, p - w + 1, p)]

\* Variant: the series is not shifted.
shift_none(s) == s

\* Series.shift(1): every value moves one row down, the first becomes NaN.
shift(s) == [p \in 1..Len(s) |-> IF p = 1 THEN NaN ELSE s[p - 1]]

\* Series.idxmin(): the label of the first row holding the minimum, NaN
\* rows skipped.
idxmin(s) ==
    LET P == { p \in 1..Len(s) : s[p] # NaN }
        p == CHOOSE p \in P :
                 /\ \A q \in P : s[p] <= s[q]
                 /\ \A q \in P : (q < p => s[q] > s[p])
    IN Index(p - 1)

\* A frame of up to MaxRows rows and a window, before the call.
InitPrep ==
    /\ n = 0
    /\ warm = << >>
    /\ warm2 = warm
    /\ Constructed
    /\ window \in 1..MaxWindow
    /\ p_low \in UNION { [1..len -> Prices] : len \in 0..MaxRows }
    /\ p_roll = << >>
    /\ p_slow = << >>
    /\ p_idx = NaN
    /\ ppc = "called"

\* line 47
Roll ==
    /\ ppc = "called"
    /\ p_roll' = rolling_min(p_low, window)
    /\ ppc' = "rolled"
    /\ UNCHANGED <<detvars, window, p_low, p_slow, p_idx>>

\* line 48
Shift ==
    /\ ppc = "rolled"
    /\ p_slow' = shift(p_roll)
    /\ ppc' = "shifted"
    /\ UNCHANGED <<detvars, window, p_low, p_roll, p_idx>>

\* lines 49-50: the label of the minimum is stored and the frame returned
StoreIndex ==
    /\ ppc = "shifted"
    /\ \E p \in 1..Len(p_roll) : p_roll[p] # NaN
    /\ p_idx' = idxmin(p_roll)
    /\ ppc' = "returned"
    /\ UNCHANGED <<detvars, window, p_low, p_roll, p_slow>>

\* line 49 when low_rolling_min holds no value: idxmin of a non-empty
\* all-NaN series gives NaN (pandas 1.x and 2.x)
StoreNoIndex ==
    /\ ppc = "shifted"
    /\ Len(p_roll) > 0
    /\ \A p \in 1..Len(p_roll) : p_roll[p] = NaN
    /\ p_idx' = NaN
    /\ ppc' = "returned"
    /\ UNCHANGED <<detvars, window, p_low, p_roll, p_slow>>

\* line 49 when low_rolling_min holds no value: idxmin raises ValueError
\* (an empty series; an all-NaN series in pandas 3), after line 48 has
\* already stored StructureLow in the frame
IndexRaises ==
    /\ ppc = "shifted"
    /\ \A p \in 1..Len(p_roll) : p_roll[p] = NaN
    /\ ppc' = "raised"
    /\ UNCHANGED <<detvars, window, p_low, p_roll, p_slow, p_idx>>

NextPrep == Roll \/ Shift \/ StoreIndex \/ StoreNoIndex \/ IndexRaises

SpecPrep == InitPrep /\ [][NextPrep]_vars

(***************************************************************************)
(* Vocabulary of the properties.                                           *)
(***************************************************************************)
\* The candle processed by the last iteration, once there was one.
cur == i - 1
Scanned == i > RANGE_CANDLE

Elems(s) == { s[k] : k \in 1..Len(s) }

\* The fields at the points of the last iteration after which boxes or
\* lines may have changed.
During(cfg) == { mid[cfg].a, mid[cfg].b, mid[cfg].c, mid[cfg].post }

\* Lines 67-76 appended a short box in the last iteration.
ShortAdded(cfg) ==
    Scanned /\ Len(mid[cfg].a.short_boxes) = Len(mid[cfg].pre.short_boxes) + 1

\* The number of long boxes lines 78-90 appended in the last iteration.
LongsAdded(cfg) ==
    Len(mid[cfg].b.long_boxes) - Len(mid[cfg].a.long_boxes)

\* The number of short boxes lines 78-90 removed in the last iteration.
ShortsRemoved(cfg) ==
    Len(mid[cfg].a.short_boxes) - Len(mid[cfg].b.short_boxes)

\* The short box lines 67-76 appended, the long box lines 78-90 appended.
NewShort(cfg) == mid[cfg].a.short_boxes[Len(mid[cfg].a.short_boxes)]
NewLong(cfg) == mid[cfg].b.long_boxes[Len(mid[cfg].b.long_boxes)]

Bearish(l) == l[5] = 0
Bullish(l) == l[5] = 1

(***************************************************************************)
(* C1 -- anchor precedes trigger: during and after the processing of       *)
(* candle cur every active long or short box (so every box added at cur)   *)
(* has an anchor index strictly below cur, and every line emitted so far   *)
(* starts strictly before it ends.                                         *)
(***************************************************************************)
C1_AnchorPrecedesTrigger ==
    Scanned =>
        \A cfg \in Cfgs : \A p \in During(cfg) :
            /\ \A box \in Elems(p.long_boxes) \cup Elems(p.short_boxes) :
                   box[1] < cur
            /\ \A l \in Elems(p.bos_lines) : l[1] < l[3]

\* A short box anchored at the candle just before, a long box anchored at a
\* scanned candle and both lines, all added by the same iteration.
C1_Witness ==
    /\ ShortAdded(AllTrue)
    /\ LongsAdded(AllTrue) = 1
    /\ mid[AllTrue].a.short_boxes[Len(mid[AllTrue].a.short_boxes)][1] = cur - 1
    /\ mid[AllTrue].b.long_boxes[Len(mid[AllTrue].b.long_boxes)][1]
           >= RANGE_CANDLE
    /\ Len(mid[AllTrue].b.bos_lines) = Len(mid[AllTrue].pre.bos_lines) + 2

(***************************************************************************)
(* C2 -- guard gating: an iteration appends at most one long box, however  *)
(* many short boxes it invalidates; it appends one only when the candle's  *)
(* index is above last_long_index as it was before, and then leaves        *)
(* last_long_index at that index.                                          *)
(***************************************************************************)
C2_GuardGating ==
    Scanned =>
        \A cfg \in Cfgs :
            /\ LongsAdded(cfg) \in {0, 1}
            /\ LongsAdded(cfg) = 1 =>
                   /\ cur > mid[cfg].pre.last_long_index
                   /\ mid[cfg].b.last_long_index = cur
                   /\ det[cfg].last_long_index = cur
            /\ cur <= mid[cfg].pre.last_long_index => LongsAdded(cfg) = 0
            /\ det[cfg].last_long_index <= cur

\* Two short boxes invalidated by one candle, one long box appended.
C2_Witness ==
    /\ Scanned
    /\ ShortsRemoved(AllTrue) >= 2
    /\ LongsAdded(AllTrue) = 1

(***************************************************************************)
(* C3 -- lookback gating: at a bearish break whose distance to             *)
(* last_up_index is LOOKBACK or more, no short box is appended and no      *)
(* bearish line is emitted by that candle; at distance LOOKBACK - 1 the    *)
(* short box is appended.                                                  *)
(***************************************************************************)
Break == Scanned /\ Lt(row.Low, row.StructureLow)

C3_LookbackGating ==
    Break =>
        \A cfg \in Cfgs :
            /\ cur - mid[cfg].pre.last_up_index >= LOOKBACK =>
                   /\ mid[cfg].a.short_boxes = mid[cfg].pre.short_boxes
                   /\ \A k \in 1..Len(det[cfg].bos_lines) :
                          k > Len(mid[cfg].pre.bos_lines)
                              => ~Bearish(det[cfg].bos_lines[k])
            /\ cur - mid[cfg].pre.last_up_index = LOOKBACK - 1 =>
                   mid[cfg].a.short_boxes =
                       Append(mid[cfg].pre.short_boxes,
                              <<mid[cfg].pre.last_up_index,
                                mid[cfg].pre.last_high,
                                mid[cfg].pre.last_up_low>>)

\* A bearish break exactly LOOKBACK candles after the last up candle, with
\* bearish lines switched on.
C3_Witness ==
    /\ Break
    /\ cur - mid[AllTrue].pre.last_up_index = LOOKBACK
    /\ mid[AllTrue].pre.short_boxes # << >>

(***************************************************************************)
(* C4 -- line emission gating: with show_bearish_bos off the line list     *)
(* holds no bearish line, with show_bullish_bos off no bullish line, at    *)
(* every point of the scan.                                                *)
(***************************************************************************)
C4_LineEmissionGating ==
    \A cfg \in Cfgs : \A p \in During(cfg) \cup {det[cfg]} :
        /\ ~cfg.show_bearish_bos => \A l \in Elems(p.bos_lines) : ~Bearish(l)
        /\ ~cfg.show_bullish_bos => \A l \in Elems(p.bos_lines) : ~Bullish(l)

\* With both flags off a short box and a long box, both anchored at scanned
\* candles, are appended by one candle while the run with both flags on emits both lines.
C4_Witness ==
    LET off == [show_bearish_bos |-> FALSE, show_bullish_bos |-> FALSE]
    IN /\ ShortAdded(off)
       /\ NewShort(off)[1] >= RANGE_CANDLE
       /\ LongsAdded(off) = 1
       /\ NewLong(off)[1] >= RANGE_CANDLE
       /\ det[off].bos_lines = << >>
       /\ \E l \in Elems(det[AllTrue].bos_lines) : Bearish(l)
       /\ \E l \in Elems(det[AllTrue].bos_lines) : Bullish(l)

(***************************************************************************)
(* C5 -- block creation is not gated by the line flags: at every point of  *)
(* every iteration the long boxes, the short boxes and the swing fields    *)
(* (last_long_index included) are the same under all four flag settings;   *)
(* only bos_lines differs.                                                 *)
(***************************************************************************)
NoLines(d) == [d EXCEPT !.bos_lines = << >>]

C5_BlocksIgnoreFlags ==
    \A c1 \in Cfgs : \A c2 \in Cfgs :
        /\ NoLines(det[c1]) = NoLines(det[c2])
        /\ NoLines(mid[c1].a) = NoLines(mid[c2].a)
        /\ NoLines(mid[c1].b) = NoLines(mid[c2].b)
        /\ NoLines(mid[c1].c) = NoLines(mid[c2].c)

\* Boxes of both kinds are active and the four runs differ in their lines.
C5_Witness ==
    /\ \A cfg \in Cfgs : det[cfg].short_boxes # << >>
    /\ \A cfg \in Cfgs : det[cfg].long_boxes # << >>
    /\ \A c1 \in Cfgs : \A c2 \in Cfgs :
           c1 # c2 => det[c1].bos_lines # det[c2].bos_lines

(***************************************************************************)
(* C6 -- same-candle create and invalidate of a short box: whenever lines  *)
(* 67-76 append a short box at a candle whose Close is above the box's     *)
(* top, lines 78-90 remove it at that candle, so it is absent from the     *)
(* active short boxes after the candle (and from the returned list when    *)
(* the candle is the last); and when the last down candle is within the    *)
(* lookback, that candle still appends a long box.                         *)
(***************************************************************************)
C6_SameCandleShort ==
    \A cfg \in Cfgs :
        (ShortAdded(cfg) /\ row.Close > NewShort(cfg)[2]) =>
            /\ NewShort(cfg) \notin Elems(mid[cfg].b.short_boxes)
            /\ NewShort(cfg) \notin Elems(det[cfg].short_boxes)
            /\ ShortsRemoved(cfg) >= 1
            /\ cur - mid[cfg].pre.last_down_index < LOOKBACK =>
                   LongsAdded(cfg) = 1

\* The scan has returned; its last candle appended a short box anchored at a
\* scanned up candle, closed above the box's top, and appended a long box.
C6_Witness ==
    /\ pc = "done"
    /\ ShortAdded(AllTrue)
    /\ NewShort(AllTrue)[1] >= RANGE_CANDLE
    /\ row.Close > NewShort(AllTrue)[2]
    /\ NewShort(AllTrue) \notin Elems(det[AllTrue].short_boxes)
    /\ LongsAdded(AllTrue) = 1

(***************************************************************************)
(* C7 -- long-box bounds: a long box appended at candle cur, once a down   *)
(* candle (Close < Open) has been scanned, is <<u, High[u], Low[u]>> for u *)
(* the last down candle scanned before cur.                                *)
(***************************************************************************)
DownsBefore(k) ==
    { j \in RANGE_CANDLE..(k - 1) : data[j].Close < data[j].Open }
UpsBefore(k) ==
    { j \in RANGE_CANDLE..(k - 1) : data[j].Close > data[j].Open }
Last(S) == CHOOSE j \in S : \A m \in S : m <= j

C7_LongBounds ==
    \A cfg \in Cfgs :
        (Scanned /\ LongsAdded(cfg) = 1 /\ DownsBefore(cur) # {}) =>
            LET u == Last(DownsBefore(cur))
            IN NewLong(cfg) = <<u, data[u].High, data[u].Low>>

(***************************************************************************)
(* C8 -- short-box bounds: a short box appended at candle cur, once an up  *)
(* candle (Close > Open) has been scanned, is                              *)
(* <<u, max(High[u..cur-1]), Low[u]>> for u the last up candle scanned     *)
(* before cur.                                                             *)
(***************************************************************************)
RECURSIVE MaxHigh(_, _)
MaxHigh(lo, hi) ==
    IF lo >= hi THEN data[lo].High
    ELSE Max(data[hi].High, MaxHigh(lo, hi - 1))

C9_TopAboveBottom ==
    \A cfg \in Cfgs :
        /\ ShortAdded(cfg) => NewShort(cfg)[2] > NewShort(cfg)[3]
        /\ (Scanned /\ LongsAdded(cfg) = 1) => NewLong(cfg)[2] > NewLong(cfg)[3]

(***************************************************************************)
(* C10 -- fail fast: when StructureLow is undefined at a scanned index, or *)
(* the frame has no row to scan, the call ends in an InputError with no    *)
(* long boxes, short boxes or lines, and no candle after an undefined      *)
(* StructureLow is processed.                                              *)
(***************************************************************************)
Malformed == undef # {} \/ n <= RANGE_CANDLE

C10_FailFast ==
    /\ (Malformed /\ pc = "done") =>
           /\ outcome = "InputError"
           /\ \A cfg \in Cfgs :
                  /\ det[cfg].long_boxes = << >>
                  /\ det[cfg].short_boxes = << >>
                  /\ det[cfg].bos_lines = << >>
    /\ \A k \in undef : i <= k + 1

(***************************************************************************)
(* C11 -- the line list is append-only and chronological: through every    *)
(* part of every iteration the list before is a prefix of the list after,  *)
(* and the end times of the lines never decrease along the list.           *)
(***************************************************************************)
IsPrefix(s, t) == Len(s) <= Len(t) /\ SubSeq(t, 1, Len(s)) = s

C11_LinesAppendOnly ==
    \A cfg \in Cfgs :
        /\ IsPrefix(mid[cfg].pre.bos_lines, mid[cfg].a.bos_lines)
        /\ IsPrefix(mid[cfg].a.bos_lines, mid[cfg].b.bos_lines)
        /\ IsPrefix(mid[cfg].b.bos_lines, mid[cfg].c.bos_lines)
        /\ IsPrefix(mid[cfg].c.bos_lines, mid[cfg].post.bos_lines)
        /\ det[cfg].bos_lines = mid[cfg].post.bos_lines
        /\ \A k \in 1..(Len(det[cfg].bos_lines) - 1) :
               det[cfg].bos_lines[k][3] <= det[cfg].bos_lines[k + 1][3]

\* An iteration that appends a bearish and a bullish line to a list that
\* already holds lines of an earlier candle.
C11_Witness ==
    /\ Scanned
    /\ mid[AllTrue].pre.bos_lines # << >>
    /\ Len(mid[AllTrue].a.bos_lines) = Len(mid[AllTrue].pre.bos_lines) + 1
    /\ Len(det[AllTrue].bos_lines) = Len(mid[AllTrue].pre.bos_lines) + 2
    /\ det[AllTrue].bos_lines[1][3] < Index(cur)

(***************************************************************************)
(* C14 -- boxes are removed on the candle that invalidates them: after     *)
(* every iteration no active short box has its top below the candle's      *)
(* Close and no active long box has its bottom above it, equal duplicates  *)
(* included.                                                               *)
(***************************************************************************)
C14_RemovedWhenInvalidated ==
    Scanned =>
        \A cfg \in Cfgs :
            /\ \A box \in Elems(det[cfg].short_boxes) : box[2] >= row.Close
            /\ \A box \in Elems(det[cfg].long_boxes) : box[3] <= row.Close
            /\ \A box \in Elems(mid[cfg].b.short_boxes) : box[2] >= row.Close
            /\ \A box \in Elems(mid[cfg].c.long_boxes) : box[3] <= row.Close

\* Two equal short boxes were active and one candle removed both.
C14_Witness ==
    /\ Scanned
    /\ \E j \in 1..Len(mid[AllTrue].a.short_boxes) :
       \E k \in 1..Len(mid[AllTrue].a.short_boxes) :
           /\ j < k
           /\ mid[AllTrue].a.short_boxes[j] = mid[AllTrue].a.short_boxes[k]
           /\ row.Close > mid[AllTrue].a.short_boxes[j][2]
    /\ ShortsRemoved(AllTrue) >= 2
    /\ det[AllTrue].short_boxes = << >>

(***************************************************************************)
(* C15 -- same-candle create and invalidate of a long box.                 *)
(*                                                                         *)
(* As claimed: some frame of well-formed candles has a candle on which     *)
(* lines 78-90 append a long box and lines 99-101 remove it again because  *)
(* the Close is below its bottom.  C15_SameCandleLong says so of the       *)
(* frames of up to MaxN rows: from the start of the scan, the loop body    *)
(* run over some rows reaches such a candle.                               *)
(*                                                                         *)
(* As it is: a long box appended at a candle is never removed at that      *)
(* candle; the candle's Close is not below its bottom, and the box is      *)
(* still the last long box after lines 99-101.                             *)
(***************************************************************************)
RECURSIVE SameCandleLongFrom(_, _)
SameCandleLongFrom(d, k) ==
    /\ k < MaxN
    /\ \E r \in Rows :
           LET it == iteration(d, r, k, AllTrue)
           IN \/ /\ Len(it.b.long_boxes) = Len(it.a.long_boxes) + 1
                 /\ r.Close < it.b.long_boxes[Len(it.b.long_boxes)][3]
                 /\ Len(it.c.long_boxes) < Len(it.b.long_boxes)
              \/ SameCandleLongFrom(it.post, k + 1)

BullishLinesAdded(cfg) ==
    Cardinality({ k \in 1..Len(det[cfg].bos_lines) :
                    /\ k > Len(mid[cfg].pre.bos_lines)
                    /\ Bullish(det[cfg].bos_lines[k]) })

BullishLines(cfg) ==
    Cardinality({ k \in 1..Len(det[cfg].bos_lines) :
                    Bullish(det[cfg].bos_lines[k]) })

C16_LongOnlyOnInvalidation ==
    \A cfg \in Cfgs :
        /\ (Scanned /\ (LongsAdded(cfg) >= 1 \/ BullishLinesAdded(cfg) >= 1)) =>
               /\ ShortsRemoved(cfg) >= 1
               /\ \E box \in Elems(mid[cfg].a.short_boxes) :
                      /\ row.Close > box[2]
                      /\ box \notin Elems(mid[cfg].b.short_boxes)
        /\ cfg.show_bullish_bos => BullishLines(cfg) = made[cfg]
        /\ ~cfg.show_bullish_bos => BullishLines(cfg) = 0

\* The second long box of a scan, appended by a candle that removes two
\* short boxes.
C16_Witness ==
    /\ Scanned
    /\ made[AllTrue] >= 2
    /\ ShortsRemoved(AllTrue) >= 2
    /\ LongsAdded(AllTrue) = 1
    /\ BullishLines(AllTrue) = made[AllTrue]

(***************************************************************************)
(* C17 -- the two implementations agree: on the same rows, window and      *)
(* flags, the function of work.py and the method of OrderBlockDetector     *)
(* hold the same swing values and the same long boxes, short boxes and     *)
(* lines, in the same order, after every candle and at the return.         *)
(***************************************************************************)
SameFields(w, d) ==
    /\ w.last_down_index = d.last_down_index
    /\ w.last_down       = d.last_down
    /\ w.last_low        = d.last_low
    /\ w.last_up_index   = d.last_up_index
    /\ w.last_long_index = d.last_long_index
    /\ w.last_up_low     = d.last_up_low
    /\ w.last_high       = d.last_high
    /\ w.long_boxes      = d.long_boxes
    /\ w.shor_boxes      = d.short_boxes
    /\ w.bos_lines       = d.bos_lines

C17_ImplementationsAgree ==
    \A cfg \in Cfgs : SameFields(mono[cfg], det[cfg])

\* Both have returned, each with a long box, a short box and lines of both
\* directions, and work.py's function has passed through both of its
\* "if len(...) > 0" tests with an empty list.
C17_Witness ==
    /\ pc = "done"
    /\ mono[AllTrue].long_boxes # << >>
    /\ mono[AllTrue].shor_boxes # << >>
    /\ \E l \in Elems(mono[AllTrue].bos_lines) : Bearish(l)
    /\ \E l \in Elems(mono[AllTrue].bos_lines) : Bullish(l)
    /\ mono[AllTrue].last_down_index >= RANGE_CANDLE
    /\ mono[AllTrue].last_low < data[mono[AllTrue].last_down_index].Low

(***************************************************************************)
(* C13 -- rows below RANGE_CANDLE are skipped: the loop reads exactly the  *)
(* indices RANGE_CANDLE .. n-1, once each and in increasing order, and     *)
(* then returns; and on two frames that agree from RANGE_CANDLE on but     *)
(* differ below it the detector goes through the same fields and returns   *)
(* the same long boxes, short boxes and lines.                             *)
(***************************************************************************)
C13_WarmupSkipped ==
    /\ Len(visited) = i - RANGE_CANDLE
    /\ \A k \in 1..Len(visited) : visited[k] = RANGE_CANDLE + k - 1
    /\ pc = "done" => i = Max(n, RANGE_CANDLE)
    /\ pc = "scan" => (i <= Max(n, RANGE_CANDLE) /\ ENABLED Next)
    /\ alt = det[AllTrue]

\* A returned scan of two candles over frames whose rows below RANGE_CANDLE
\* differ in every column, with a long box, a short box and lines returned.
C13_Witness ==
    /\ pc = "done"
    /\ Len(visited) >= 2
    /\ \A k \in DOMAIN warm :
           /\ warm[k].Open # warm2[k].Open
           /\ warm[k].High # warm2[k].High
           /\ warm[k].Low # warm2[k].Low
    /\ DOMAIN warm # {}
    /\ det[AllTrue].long_boxes # << >>
    /\ det[AllTrue].short_boxes # << >>
    /\ det[AllTrue].bos_lines # << >>

(***************************************************************************)
(* C12 -- calculate_structure_low: once line 48 has run, StructureLow at   *)
(* every index k >= window is the least Low of the rows k-window .. k-1    *)
(* (never the row's own Low), and it is NaN at every index below window.   *)
(***************************************************************************)
Least(S) == CHOOSE m \in S : \A x \in S : m <= x

C12_StructureLow ==
    ppc \in {"shifted", "returned", "raised"} =>
        /\ Len(p_slow) = Len(p_low)
        /\ \A k \in 0..(Len(p_low) - 1) :
               IF k >= window
               THEN p_slow[k + 1] =
                        Least({ p_low[j + 1] : j \in (k - window)..(k - 1) })
               ELSE p_slow[k + 1] = NaN

\* A window of two rows or more; at some index the StructureLow is below
\* the Low of the row before (it comes from an older row of the window) and
\* above the row's own Low (which it does not include).
C12_Witness ==
    /\ ppc = "returned"
    /\ window >= 2
    /\ \E k \in window..(Len(p_low) - 1) :
           /\ p_slow[k + 1] < p_low[k]
           /\ p_low[k + 1] < p_slow[k + 1]

====
